---------------------------- MODULE Spec2Model ----------------------------
(***************************************************************************)
(* Model of src/include/timer.h: class Timer (a start/stop/reset          *)
(* stopwatch) and class ScopedTimer (starts a Timer when constructed and   *)
(* stops it when destroyed).                                               *)
(*                                                                         *)
(* Modelling conventions                                                   *)
(*  - The header has two builds, selected by _WIN32.  The variable `build` *)
(*    is fixed by Init and never changes; both builds are explored.        *)
(*  - `clock` is the platform clock, in microseconds.  now() converts it   *)
(*    to the build's value_t: a struct timeval {tv_sec, tv_usec} or a      *)
(*    LARGE_INTEGER {QuadPart} performance-counter reading.                *)
(*  - A C++ double holding seconds is represented by the integer number of *)
(*    microseconds it stands for.  Every value the model produces is a     *)
(*    whole number of microseconds, so this is exact up to floating-point  *)
(*    rounding, which is not modelled.                                     *)
(*  - A Timer object is the record [m_ticking, m_starttime, m_elapsed].    *)
(*    A member function is an operator from the object (and the clock      *)
(*    reading it takes) to the object afterwards; a member function that   *)
(*    returns a value yields [self |-> object afterwards, ret |-> value].  *)
(***************************************************************************)
EXTENDS Integers, Sequences, FiniteSets

\* ------------------------------------------------------------------ bounds
\* Clock readings range over seconds 0..MaxSec.
MaxSec == 1
\* At most MaxCalls state-changing member calls are made in one behaviour.
MaxCalls == 4
\* At most MaxGuards ScopedTimer objects are alive on the Timer at once.
MaxGuards == 2

\* The microsecond parts a clock reading may have: both ends of the range,
\* so that a later reading can have a smaller tv_usec than an earlier one.
UsecSamples == {0, 999999}

\* ------------------------------------------------------- program constants
\* The 1e6 of Timer::diff: microseconds per second.
UsecPerSec == 1000000
\* What QueryPerformanceFrequency reports (counts per second); the value is
\* the platform's, 10 MHz here.
PerfFreq == 10000000

\* All clock readings of the model, in microseconds.
ClockReadings == {s * UsecPerSec + u : s \in 0..MaxSec, u \in UsecSamples}

VARIABLES
    build,        \* "posix" or "win32": which branch of #ifdef _WIN32 is compiled
    clock,        \* the platform clock, in microseconds
    startnow,     \* the argument the Timer was constructed with
    m_ticking,    \* Timer::m_ticking
    m_starttime,  \* Timer::m_starttime (a value_t)
    m_elapsed,    \* Timer::m_elapsed
    guards,       \* number of live ScopedTimer objects bound to the Timer
    lastCall,     \* name of the member function that has just returned, or
                  \* "none" once the clock has changed since
    ret,          \* value that call returned (0 for a void one)
    calls,        \* number of state-changing member calls made so far
    \* History variables: a record of the calls made, kept beside the object
    \* and never read by it.
    open,         \* a segment is open: start() was called, by the Timer's
                  \* constructor or later, and neither stop() nor reset() since
    wasOpen,      \* the value of `open` when the call in lastCall was made
    segOpen,      \* clock reading at the start() that opened the segment now
                  \* open (or last opened)
    nsegs,        \* number of segments closed by stop() since construction or
                  \* the last reset()
    segSum,       \* the time those segments lasted: the sum of |close - open|
                  \* over them, in microseconds of `clock`
    measured,     \* what Timer::diff makes of those segments: the sum of
                  \* diff(now(close), now(open)) over them
    plain,        \* no reset() and no start() on an open segment so far
    loneGuard,    \* every call so far was made through a ScopedTimer, and
                  \* through the same one: the first call constructed it
    \* Two threads on one Timer (SpecConc only; idle in Spec): a writer that
    \* runs one start() or stop() and a reader that runs one operator(),
    \* each one load, store or clock read at a time.
    wop,          \* the member function the writer runs: "start" or "stop"
    wpc,          \* where the writer is in it
    w_n,          \* the writer's local n (stop) or the value of now() (start)
    r_order,      \* which operand of `m_elapsed + time_since_start()` the
                  \* build evaluates first
    rpc,          \* where the reader is in operator()
    r_elapsed,    \* the reader's load of m_elapsed
    r_ticking,    \* the reader's load of m_ticking
    r_n,          \* the reader's local n
    r_since,      \* what the reader's time_since_start() returns
    before,       \* history: the Timer before either thread ran
    q_seen,       \* history: the clock readings there were during the query
    pre_ok        \* history: the writer had not finished when the query began

hist == <<open, wasOpen, segOpen, nsegs, segSum, measured, plain,
          loneGuard>>

conc == <<wop, wpc, w_n, r_order, rpc, r_elapsed, r_ticking, r_n, r_since,
          before, q_seen, pre_ok>>

vars == <<build, clock, startnow, m_ticking, m_starttime, m_elapsed, guards,
          lastCall, ret, calls, hist, conc>>

Abs(x) == IF x < 0 THEN -x ELSE x

\* ---------------------------------------------------------------- Timer
\* Timer::now: the platform clock as a value_t.
now(c) ==
    IF build = "win32"
    THEN [QuadPart |-> c * (PerfFreq \div UsecPerSec)]
    ELSE [tv_sec |-> c \div UsecPerSec, tv_usec |-> c % UsecPerSec]

\* Every value_t the clock can yield.
ValueT == {now(c) : c \in ClockReadings}

\* Timer::diff with the absolute value forgotten in the timeval branch.
diff_signed(then_t, now_t) ==
    IF build = "win32"
    THEN (now_t.QuadPart - then_t.QuadPart) \div (PerfFreq \div UsecPerSec)
    ELSE (now_t.tv_sec - then_t.tv_sec) * UsecPerSec
           + (now_t.tv_usec - then_t.tv_usec)

\* Timer::diff: seconds from `then` to `now` (as microseconds).
\*   _WIN32: (double)(now.QuadPart - then.QuadPart) / (double)freq.QuadPart
\*   else:   fabs((now.tv_sec - then.tv_sec) + (now.tv_usec - then.tv_usec) / 1e6)
diff(then_t, now_t) ==
    IF build = "win32"
    THEN (now_t.QuadPart - then_t.QuadPart) \div (PerfFreq \div UsecPerSec)
    ELSE Abs((now_t.tv_sec - then_t.tv_sec) * UsecPerSec
               + (now_t.tv_usec - then_t.tv_usec))

\* Timer::start that captures the clock even when already ticking.
start_recapture(t, n) ==
    [t EXCEPT !.m_starttime = n, !.m_ticking = TRUE]

\* Timer::start that sets m_ticking without reading the clock.
start_no_capture(t, n) ==
    IF ~t.m_ticking THEN [t EXCEPT !.m_ticking = TRUE] ELSE t

\* Timer::start.
start(t, n) ==
    IF ~t.m_ticking
    THEN [t EXCEPT !.m_starttime = n, !.m_ticking = TRUE]
    ELSE t

\* Timer::stop that adds the difference even when not ticking.
stop_unguarded(t, n) ==
    [t EXCEPT !.m_elapsed = @ + diff(n, t.m_starttime), !.m_ticking = FALSE]

\* Timer::stop.  Note the argument order: diff(n, m_starttime).
stop(t, n) ==
    IF t.m_ticking
    THEN [t EXCEPT !.m_elapsed = @ + diff(n, t.m_starttime),
                   !.m_ticking = FALSE]
    ELSE t

\* Timer::reset that forgets to clear m_ticking.
reset_keeps_ticking(t) ==
    [t EXCEPT !.m_elapsed = 0]

\* Timer::reset.
reset(t) ==
    [t EXCEPT !.m_elapsed = 0, !.m_ticking = FALSE]

\* Timer::time_since_start without the test of m_ticking.
time_since_start_untested(t, n) ==
    [self |-> t, ret |-> diff(t.m_starttime, n)]

\* Timer::time_since_start (const).
time_since_start(t, n) ==
    [self |-> t,
     ret  |-> IF t.m_ticking THEN diff(t.m_starttime, n) ELSE 0]

\* Timer::operator() that commits the open segment when it is read.
operator_call_commits(t, n) ==
    [self |-> stop(t, n), ret |-> t.m_elapsed + time_since_start(t, n).ret]

\* Timer::operator() (const).
operator_call(t, n) ==
    LET s == time_since_start(t, n)
    IN  [self |-> s.self, ret |-> s.self.m_elapsed + s.ret]

\* Timer::Timer(bool startnow) that ignores its argument and never starts.
Timer_never_starts(sn, n, junk) ==
    [m_ticking |-> FALSE, m_starttime |-> junk, m_elapsed |-> 0]

\* Timer::Timer(bool startnow); `junk` is the indeterminate value of the
\* member m_starttime, which the constructor does not initialise.
Timer(sn, n, junk) ==
    LET t0 == [m_ticking |-> FALSE, m_starttime |-> junk, m_elapsed |-> 0]
    IN  IF sn THEN start(t0, n) ELSE t0

\* ---------------------------------------------------------- ScopedTimer
\* ScopedTimer::start that does nothing.
ScopedTimer_start_dropped(t, n) == t

\* ScopedTimer::start.
ScopedTimer_start(t, n) == start(t, n)

\* ScopedTimer::stop.
ScopedTimer_stop(t, n) == stop(t, n)

\* ScopedTimer::reset.
ScopedTimer_reset(t) == reset(t)

\* ScopedTimer::ScopedTimer(TIMER &t) that only stores the reference.
ScopedTimer_ctor_stores_only(t, n) == t

\* ScopedTimer::ScopedTimer(TIMER &t) that restarts a Timer found ticking.
ScopedTimer_ctor_restarts(t, n) == start_recapture(t, n)

\* ScopedTimer::ScopedTimer(TIMER &t).
ScopedTimer_ctor(t, n) == ScopedTimer_start(t, n)

\* ScopedTimer::~ScopedTimer with an empty body.
ScopedTimer_dtor_empty(t, n) == t

\* ScopedTimer::~ScopedTimer.
ScopedTimer_dtor(t, n) == ScopedTimer_stop(t, n)

\* ------------------------------------------------------------ the state
\* The Timer object held in the variables.
This == [m_ticking |-> m_ticking, m_starttime |-> m_starttime,
         m_elapsed |-> m_elapsed]

\* The variables hold the object t.
Holds(t) ==
    /\ m_ticking = t.m_ticking
    /\ m_starttime = t.m_starttime
    /\ m_elapsed = t.m_elapsed

\* The variables take the object t.
Becomes(t) ==
    /\ m_ticking' = t.m_ticking
    /\ m_starttime' = t.m_starttime
    /\ m_elapsed' = t.m_elapsed

TypeOK ==
    /\ build \in {"posix", "win32"}
    /\ clock \in ClockReadings
    /\ startnow \in BOOLEAN
    /\ m_ticking \in BOOLEAN
    /\ m_starttime \in ValueT
    /\ m_elapsed \in Int
    /\ guards \in 0..MaxGuards
    /\ calls \in 0..MaxCalls
    /\ ret \in Int
    /\ open \in BOOLEAN
    /\ wasOpen \in BOOLEAN
    /\ segOpen \in ClockReadings
    /\ nsegs \in 0..MaxCalls
    /\ segSum \in Nat
    /\ measured \in Int
    /\ plain \in BOOLEAN
    /\ loneGuard \in BOOLEAN

\* No second thread: the variables of the two-thread runs at rest.
ConcIdle ==
    /\ wop = "stop"
    /\ wpc = "idle"
    /\ w_n = now(0)
    /\ r_order = "elapsed_first"
    /\ rpc = "idle"
    /\ r_elapsed = 0
    /\ r_ticking = FALSE
    /\ r_n = now(0)
    /\ r_since = 0
    /\ before = Timer(FALSE, now(0), now(0))
    /\ q_seen = {}
    /\ pre_ok = FALSE

\* The state right after `Timer t(startnow);`, on either build, at any
\* clock reading, with any bits in an uninitialised m_starttime.
Init ==
    /\ build \in {"posix", "win32"}
    /\ clock \in ClockReadings
    /\ startnow \in BOOLEAN
    /\ \E junk \in ValueT : Holds(Timer(startnow, now(clock), junk))
    /\ guards = 0
    /\ lastCall = "Timer"
    /\ ret = 0
    /\ calls = 0
    /\ open = startnow
    /\ wasOpen = FALSE
    /\ segOpen = clock
    /\ nsegs = 0
    /\ segSum = 0
    /\ measured = 0
    /\ plain = TRUE
    /\ loneGuard = TRUE
    /\ ConcIdle

\* ------------------------------------------------------------- history
\* What a call of start() adds to the history.
StartHist ==
    /\ open' = TRUE
    /\ segOpen' = IF open THEN segOpen ELSE clock
    /\ plain' = (plain /\ ~open)
    /\ UNCHANGED <<nsegs, segSum, measured>>

\* What a call of stop() adds to the history.
StopHist ==
    /\ open' = FALSE
    /\ nsegs' = IF open THEN nsegs + 1 ELSE nsegs
    /\ segSum' = IF open THEN segSum + Abs(clock - segOpen) ELSE segSum
    /\ measured' = IF open
                   THEN measured + diff(now(clock), now(segOpen))
                   ELSE measured
    /\ UNCHANGED <<segOpen, plain>>

\* What a call of reset() adds to the history.
ResetHist ==
    /\ open' = FALSE
    /\ nsegs' = 0
    /\ segSum' = 0
    /\ measured' = 0
    /\ plain' = FALSE
    /\ UNCHANGED segOpen

\* A void member call named f was made; `same` says that it went through
\* the ScopedTimer that all calls so far went through.
Called(f, same) ==
    /\ calls < MaxCalls
    /\ calls' = calls + 1
    /\ lastCall' = f
    /\ ret' = 0
    /\ wasOpen' = open
    /\ loneGuard' = (loneGuard /\ same)
    /\ UNCHANGED <<build, clock, startnow, conc>>

\* A const member call named f was made and returned r.ret.
Queried(f, r) ==
    /\ Becomes(r.self)
    /\ ret' = r.ret
    /\ lastCall' = f
    /\ wasOpen' = open
    /\ UNCHANGED <<build, clock, startnow, guards, calls, open, segOpen,
                   nsegs, segSum, measured, plain, loneGuard, conc>>

\* ------------------------------------------------------------- actions
\* t.start()
TimerStart ==
    /\ Called("start", FALSE)
    /\ Becomes(start(This, now(clock)))
    /\ StartHist
    /\ UNCHANGED guards

\* t.stop()
TimerStop ==
    /\ Called("stop", FALSE)
    /\ Becomes(stop(This, now(clock)))
    /\ StopHist
    /\ UNCHANGED guards

\* t.reset()
TimerReset ==
    /\ Called("reset", FALSE)
    /\ Becomes(reset(This))
    /\ ResetHist
    /\ UNCHANGED guards

\* t()
TimerElapsed ==
    Queried("operator()", operator_call(This, now(clock)))

\* t.time_since_start()
TimerSinceStart ==
    Queried("time_since_start", time_since_start(This, now(clock)))

\* ScopedTimer<Timer> g(t);
GuardCtor ==
    /\ guards < MaxGuards
    /\ Called("ScopedTimer", calls = 0)
    /\ Becomes(ScopedTimer_ctor(This, now(clock)))
    /\ StartHist
    /\ guards' = guards + 1

\* The innermost guard goes out of scope, by whatever path.
GuardDtor ==
    /\ guards > 0
    /\ Called("~ScopedTimer", TRUE)
    /\ Becomes(ScopedTimer_dtor(This, now(clock)))
    /\ StopHist
    /\ guards' = guards - 1

\* g.start()
GuardStart ==
    /\ guards > 0
    /\ Called("ScopedTimer::start", TRUE)
    /\ Becomes(ScopedTimer_start(This, now(clock)))
    /\ StartHist
    /\ UNCHANGED guards

\* g.stop()
GuardStop ==
    /\ guards > 0
    /\ Called("ScopedTimer::stop", TRUE)
    /\ Becomes(ScopedTimer_stop(This, now(clock)))
    /\ StopHist
    /\ UNCHANGED guards

\* g.reset()
GuardReset ==
    /\ guards > 0
    /\ Called("ScopedTimer::reset", TRUE)
    /\ Becomes(ScopedTimer_reset(This))
    /\ ResetHist
    /\ UNCHANGED guards

\* What a change of the clock does to the rest of the state: nothing, except
\* that no call has "just returned" any more.
Elapse ==
    /\ lastCall' = "none"
    /\ ret' = 0
    /\ wasOpen' = FALSE
    /\ UNCHANGED <<build, startnow, m_ticking, m_starttime, m_elapsed, guards,
                   calls, open, segOpen, nsegs, segSum, measured, plain,
                   loneGuard, conc>>

\* Time passes: the platform clock moves forward.
ClockAdvance ==
    /\ \E c \in ClockReadings : c > clock /\ clock' = c
    /\ Elapse

\* The platform clock is set back (gettimeofday is not monotonic).
ClockStepBack ==
    /\ \E c \in ClockReadings : c < clock /\ clock' = c
    /\ Elapse

Next ==
    \/ TimerStart
    \/ TimerStop
    \/ TimerReset
    \/ TimerElapsed
    \/ TimerSinceStart
    \/ GuardCtor
    \/ GuardDtor
    \/ GuardStart
    \/ GuardStop
    \/ GuardReset
    \/ ClockAdvance
    \/ ClockStepBack

Spec == Init /\ [][Next]_vars

\* ------------------------------------------------------------- queries
\* What t() returns when the clock reads c.
Total(c) == operator_call(This, now(c)).ret

\* What t.time_since_start() returns when the clock reads c.
SinceStart(c) == time_since_start(This, now(c)).ret

\* The three data members.
fields == <<m_ticking, m_starttime, m_elapsed>>

\* A step that is a call of start() or of stop(), direct or through a
\* ScopedTimer.
StartCall == TimerStart \/ GuardStart \/ GuardCtor
StopCall == TimerStop \/ GuardStop \/ GuardDtor

\* A step that is a call of reset(), direct or through a ScopedTimer.
ResetCall == TimerReset \/ GuardReset

\* ---------------------------------------------------------------- C1
\* C1: a Timer constructed with startnow = false and driven by start() and
\* stop() only, with no start() while ticking and no reset(), reports, once
\* stopped, the sum over its segments of |reading at stop - reading at
\* start|, at whatever clock reading it is asked.
C1_TotalIsSumOfSegments ==
    (~startnow /\ plain /\ ~m_ticking) =>
        \A c \in ClockReadings : Total(c) = segSum

\* C1 on the gettimeofday build alone, where diff takes the absolute value.
C1_OnTimevalBuild ==
    build = "posix" => C1_TotalIsSumOfSegments

\* C1: two segments of non-zero length have been completed.
C1_TwoSegments ==
    /\ ~startnow /\ plain /\ ~m_ticking
    /\ nsegs = 2
    /\ segSum > Abs(clock - segOpen)
    /\ clock # segOpen

\* ---------------------------------------------------------------- C2
\* C2: a call of start() made while the Timer is ticking changes none of
\* m_ticking, m_elapsed, m_starttime; so while the Timer ticks m_starttime
\* is the reading of the start() that opened the segment, and the total
\* reported at reading c is m_elapsed plus the one interval from there to c.
C2_StartWhileTickingIsNoOp ==
    /\ [][(StartCall /\ m_ticking) => UNCHANGED fields]_vars
    /\ [](m_ticking =>
            /\ m_starttime = now(segOpen)
            /\ \A c \in ClockReadings :
                  Total(c) = m_elapsed + diff(now(segOpen), now(c)))

\* C2: start() has just been called on a ticking Timer, at a clock reading
\* other than the one at which the segment was opened.
C2_StartedTwice ==
    /\ lastCall = "start" /\ wasOpen /\ m_ticking
    /\ clock # segOpen

\* ---------------------------------------------------------------- C3
\* C3: a call of stop() made while the Timer is stopped changes none of
\* m_elapsed, m_ticking, m_starttime; so m_elapsed holds each closed segment
\* once, however many times stop() is called.
C3_StopWhileStoppedIsNoOp ==
    /\ [][(StopCall /\ ~m_ticking) => UNCHANGED fields]_vars
    /\ [](m_elapsed = measured)

\* C3: stop() has just been called on a stopped Timer that holds a segment,
\* at a clock reading other than the one the segment was opened at.
C3_StoppedTwice ==
    /\ lastCall = "stop" /\ ~wasOpen /\ ~m_ticking
    /\ nsegs = 1 /\ segSum > 0
    /\ clock # segOpen

\* ---------------------------------------------------------------- C4
\* C4: right after reset() the Timer is stopped with m_elapsed = 0 and
\* reports 0 at every clock reading; the segment open at the reset is not
\* committed, then or later: m_elapsed is made of the segments opened and
\* closed since the reset, and of nothing else.
C4_ResetZeroes ==
    /\ lastCall \in {"reset", "ScopedTimer::reset"} =>
          /\ ~m_ticking
          /\ m_elapsed = 0
          /\ \A c \in ClockReadings : Total(c) = 0
    /\ ~plain => m_elapsed = measured
    /\ nsegs = 0 => m_elapsed = 0

\* C4: reset() has just been called on a ticking Timer whose open segment
\* had lasted a non-zero time, after an earlier segment was committed.
C4_ResetWhileTicking ==
    /\ lastCall = "reset" /\ wasOpen
    /\ clock # segOpen
    /\ calls >= 3

\* ---------------------------------------------------------------- C5
\* C5: no negative time is ever held or reported: m_elapsed >= 0, and
\* whatever time_since_start() or operator() has just returned is >= 0.
C5_NeverNegative ==
    /\ m_elapsed >= 0
    /\ lastCall \in {"operator()", "time_since_start"} => ret >= 0

\* C5 on the gettimeofday build alone.
C5_OnTimevalBuild ==
    build = "posix" => C5_NeverNegative

\* ---------------------------------------------------------------- C6
\* C6: when a ScopedTimer has just been destroyed, the Timer it was bound
\* to is stopped, whatever was called inside the scope and whether or not
\* the Timer was ticking when the guard was created.
C6_StoppedAfterGuard ==
    lastCall = "~ScopedTimer" => ~m_ticking

\* C6: a guard created on a Timer that was already ticking (startnow) has
\* just been destroyed, after a call made inside its scope, and the Timer
\* was ticking when the destructor ran.
C6_GuardOnTickingTimerGone ==
    /\ lastCall = "~ScopedTimer" /\ wasOpen
    /\ startnow /\ loneGuard /\ calls >= 3

\* ---------------------------------------------------------------- C7
\* The scope `{ ScopedTimer<Timer> g(t); }` on a Timer constructed with
\* startnow = false and not touched before: inside it, and after it.
InsideLoneScope == ~startnow /\ calls = 1 /\ lastCall = "ScopedTimer"
AfterLoneScope == ~startnow /\ calls = 2 /\ lastCall = "~ScopedTimer"

C9_QueriesArePure ==
    /\ [][(TimerElapsed \/ TimerSinceStart) => UNCHANGED fields]_vars
    /\ [](lastCall = "operator()" => ret = m_elapsed + SinceStart(clock))

\* C9: operator() has just been called on a ticking Timer that holds
\* committed time, at a reading other than the one the segment opened at.
C9_ReadWhileTicking ==
    /\ lastCall = "operator()" /\ m_ticking
    /\ m_elapsed # 0 /\ clock # segOpen
    /\ ret # m_elapsed

\* ---------------------------------------------------------------- C10
\* C10: before any call on a Timer constructed with startnow = false, right
\* after a stop() and right after a reset(), the Timer is not ticking; and
\* whenever it is not ticking, time_since_start() returns 0 and operator()
\* returns m_elapsed, at every clock reading.
C10_ZeroWhenStopped ==
    /\ (~startnow /\ calls = 0) => ~m_ticking
    /\ lastCall \in {"stop", "ScopedTimer::stop", "~ScopedTimer",
                      "reset", "ScopedTimer::reset"} => ~m_ticking
    /\ ~m_ticking =>
          /\ \A c \in ClockReadings :
                SinceStart(c) = 0 /\ Total(c) = m_elapsed
          /\ lastCall = "time_since_start" => ret = 0
          /\ lastCall = "operator()" => ret = m_elapsed

\* C10: time_since_start() has just been called on a stopped Timer that
\* holds committed time and whose m_starttime is not the current reading.
C10_ReadWhileStopped ==
    /\ lastCall = "time_since_start" /\ ~m_ticking
    /\ m_elapsed # 0 /\ m_starttime # now(clock)

\* ---------------------------------------------------------------- C11
\* No start() has been called since a construction with startnow = false.
NeverStarted == ~startnow /\ plain /\ ~open /\ nsegs = 0

\* C11: until the first call the Timer holds m_elapsed = 0 and ticks exactly
\* if it was constructed with startnow = true; right after a construction
\* with startnow = true m_starttime is the clock reading of the
\* construction; after a construction with startnow = false operator()
\* returns 0 at whatever reading the clock has until start() is first
\* called.
C11_Construction ==
    /\ calls = 0 => m_elapsed = 0 /\ m_ticking = startnow
    /\ (lastCall = "Timer" /\ startnow) => m_starttime = now(clock)
    /\ (calls = 0 /\ startnow) => m_starttime = now(segOpen)
    /\ NeverStarted => Total(clock) = 0

\* C11: a Timer constructed with startnow = true and not called since has
\* just reported a non-zero time, at a reading other than its construction's.
C11_AutostartedAndRead ==
    /\ startnow /\ calls = 0
    /\ lastCall = "operator()" /\ ret # 0
    /\ clock # segOpen

\* ---------------------------------------------------------------- C12
\* C12: a call of stop() on a ticking Timer adds |clock reading at the
\* stop - clock reading at the start| to m_elapsed, which is also what
\* time_since_start() returns at the reading of the stop; it clears
\* m_ticking and leaves m_starttime unchanged.
C12_StopCommitsDelta ==
    [][(StopCall /\ m_ticking) =>
          /\ m_elapsed' = m_elapsed + Abs(clock - segOpen)
          /\ m_elapsed' - m_elapsed = SinceStart(clock)
          /\ ~m_ticking'
          /\ m_starttime' = m_starttime]_vars

\* C12 on the gettimeofday build alone.
C12_OnTimevalBuild ==
    [][build = "posix" =>
        ((StopCall /\ m_ticking) =>
          /\ m_elapsed' = m_elapsed + Abs(clock - segOpen)
          /\ m_elapsed' - m_elapsed = SinceStart(clock)
          /\ ~m_ticking'
          /\ m_starttime' = m_starttime)]_vars

\* C12 without the sign: what stop() does on either build.
C12_StopCommitsDiff ==
    [][(StopCall /\ m_ticking) =>
          /\ m_elapsed' = m_elapsed + diff(now(clock), now(segOpen))
          /\ ~m_ticking'
          /\ m_starttime' = m_starttime]_vars

\* ---------------------------------------------------------------- C13
\* C13: m_elapsed changes only in a stop() made while ticking, where it
\* grows by |reading at the stop - reading at the start|, and in a reset(),
\* where it becomes 0; a start() made while stopped leaves it unchanged;
\* and in no step other than a reset() does it decrease.
C13_AccumulatedOnlyGrows ==
    [][/\ m_elapsed' # m_elapsed => ((StopCall /\ m_ticking) \/ ResetCall)
       /\ ResetCall => m_elapsed' = 0
       /\ (StartCall /\ ~m_ticking) => m_elapsed' = m_elapsed
       /\ (StopCall /\ m_ticking) =>
             m_elapsed' = m_elapsed + Abs(clock - segOpen)
       /\ ~ResetCall => m_elapsed' >= m_elapsed]_vars

\* C13 on the gettimeofday build alone.
C13_OnTimevalBuild ==
    [][build = "posix" =>
       /\ m_elapsed' # m_elapsed => ((StopCall /\ m_ticking) \/ ResetCall)
       /\ ResetCall => m_elapsed' = 0
       /\ (StartCall /\ ~m_ticking) => m_elapsed' = m_elapsed
       /\ (StopCall /\ m_ticking) =>
             m_elapsed' = m_elapsed + Abs(clock - segOpen)
       /\ ~ResetCall => m_elapsed' >= m_elapsed]_vars

\* C13 without the sign: which steps change m_elapsed, on either build.
C13_OnlyStopAndResetChange ==
    [][/\ m_elapsed' # m_elapsed => ((StopCall /\ m_ticking) \/ ResetCall)
       /\ ResetCall => m_elapsed' = 0
       /\ (StartCall /\ ~m_ticking) => m_elapsed' = m_elapsed]_vars

\* ---------------------------------------------------------------- C14
\* The Timer with v in place of its m_starttime.
WithStart(v) == [This EXCEPT !.m_starttime = v]

\* C14: while the Timer ticks, m_starttime is the clock reading taken by
\* the start() that opened the segment; while it does not tick, no value
\* of m_starttime, left over or never initialised, changes what
\* time_since_start() or operator() returns or what stop() commits, and the
\* next start() replaces it.
C14_StartInstant ==
    /\ m_ticking => m_starttime = now(segOpen)
    /\ ~m_ticking =>
          \A v \in ValueT :
             /\ time_since_start(WithStart(v), now(clock)).ret = 0
             /\ operator_call(WithStart(v), now(clock)).ret = m_elapsed
             /\ stop(WithStart(v), now(clock)).m_elapsed = m_elapsed
             /\ start(WithStart(v), now(clock)) = start(This, now(clock))

\* C14: start() has just opened a second segment, at a reading other than
\* the one the first segment was opened at.
C14_SecondSegmentOpened ==
    /\ lastCall = "start" /\ ~wasOpen /\ m_ticking
    /\ nsegs = 1 /\ segSum > 0 /\ plain
    /\ m_starttime = now(clock)

\* ---------------------------------------------------------------- C16
\* The Timer as the step leaves it, and what t() returns from it when the
\* clock reads c.
Next_This == [m_ticking |-> m_ticking', m_starttime |-> m_starttime',
              m_elapsed |-> m_elapsed']
TotalNext(c) == operator_call(Next_This, now(c)).ret

\* C16: a call of stop() on a ticking Timer leaves what operator() returns
\* at the clock reading of the stop unchanged; and the difference stop()
\* computes, diff(n, m_starttime), equals the one the query computes,
\* diff(m_starttime, n).
C16_StopKeepsTotal ==
    [][(StopCall /\ m_ticking) =>
          /\ TotalNext(clock) = Total(clock)
          /\ diff(now(clock), m_starttime) = diff(m_starttime, now(clock))]_vars

\* C16 on the gettimeofday build alone.
C16_OnTimevalBuild ==
    [][(build = "posix" /\ StopCall /\ m_ticking) =>
          /\ TotalNext(clock) = Total(clock)
          /\ diff(now(clock), m_starttime) = diff(m_starttime, now(clock))]_vars

\* ---------------------------------------------------------------- C17
\* The Timer under a clock that never goes back.
NextMono ==
    \/ TimerStart
    \/ TimerStop
    \/ TimerReset
    \/ TimerElapsed
    \/ TimerSinceStart
    \/ GuardCtor
    \/ GuardDtor
    \/ GuardStart
    \/ GuardStop
    \/ GuardReset
    \/ ClockAdvance

SpecMono == Init /\ [][NextMono]_vars

\* C17: under a clock that never goes back, what operator() returns does
\* not decrease in any step other than a reset(), and does not change in
\* any such step taken while the Timer is stopped; what operator() has just
\* returned is that value.
C17_TotalNeverDecreases ==
    /\ [][~ResetCall =>
            /\ TotalNext(clock') >= Total(clock)
            /\ ~m_ticking => TotalNext(clock') = Total(clock)]_vars
    /\ [](lastCall = "operator()" => ret = Total(clock))

\* C17 on the gettimeofday build alone.
C17_OnTimevalBuild ==
    /\ [][(build = "posix" /\ ~ResetCall) =>
            /\ TotalNext(clock') >= Total(clock)
            /\ ~m_ticking => TotalNext(clock') = Total(clock)]_vars
    /\ [](lastCall = "operator()" => ret = Total(clock))

\* ---------------------------------------------------------------- C18
\* C18: constructing a ScopedTimer on a ticking Timer changes none of its
\* members; destroying one on a ticking Timer stops it and commits the
\* segment from the start() that opened it, and on a stopped Timer changes
\* nothing; so the Timer is stopped after every guard's destruction, also
\* that of an inner guard, and while it is stopped the passing of time
\* changes neither its members nor what it reports.  After
\* `Timer t(false); { ScopedTimer g(t); { ScopedTimer h(t); }` the one
\* segment committed is the one opened by g.
C18_GuardDoesNotRestore ==
    /\ [][/\ (GuardCtor /\ m_ticking) => UNCHANGED fields
          /\ (GuardDtor /\ m_ticking) =>
                /\ ~m_ticking'
                /\ m_starttime = now(segOpen)
                /\ m_elapsed' = m_elapsed + diff(now(clock), now(segOpen))
          /\ (GuardDtor /\ ~m_ticking) => UNCHANGED fields
          /\ ((ClockAdvance \/ ClockStepBack) /\ ~m_ticking) =>
                /\ UNCHANGED fields
                /\ TotalNext(clock') = Total(clock)]_vars
    /\ [](lastCall = "~ScopedTimer" => ~m_ticking)
    /\ []((~startnow /\ calls = 3 /\ guards = 1
                /\ lastCall = "~ScopedTimer") =>
            /\ nsegs = 1
            /\ m_elapsed = diff(now(clock), now(segOpen)))

\* C18: of two nested guards the inner one has just been destroyed and
\* stopped the Timer, at a reading other than the one the segment was
\* opened at; the outer guard is still alive.
C18_InnerGuardGone ==
    /\ calls = 3 /\ guards = 1
    /\ lastCall = "~ScopedTimer" /\ wasOpen
    /\ clock # segOpen


\* ------------------------------------------------------------ two threads
\* One Timer shared by a writer thread that runs one start() or one stop()
\* and a reader thread that runs one operator(). Nothing in the class
\* synchronises them, so the threads interleave between any two loads,
\* stores and clock reads; each of those is one step. The clock only moves
\* forward here.

\* The stores of start() in the order that hides a half-made start.
start_writes_swapped == <<"m_ticking", "m_starttime">>

\* The stores of Timer::start in program order.
start_writes == <<"m_starttime", "m_ticking">>

\* The stores of Timer::stop in program order.
stop_writes == <<"m_elapsed", "m_ticking">>

\* A Timer that was constructed ticking at reading a, stopped at b and, if
\* tk, started again at c.
Used(a, b, c, tk) ==
    LET t2 == stop(Timer(TRUE, now(a), now(a)), now(b))
    IN  IF tk THEN start(t2, now(c)) ELSE t2

\* Both threads about to run on a Timer that has been used before.
InitConc ==
    /\ build \in {"posix", "win32"}
    /\ clock \in ClockReadings
    /\ startnow = TRUE
    /\ guards = 0
    /\ lastCall = "none"
    /\ ret = 0
    /\ calls = 0
    /\ \E a, b, c \in ClockReadings, tk \in BOOLEAN :
          /\ a <= b /\ b <= c /\ c <= clock
          /\ Holds(Used(a, b, c, tk))
    /\ open = m_ticking
    /\ wasOpen = FALSE
    /\ segOpen = 0
    /\ nsegs = 0
    /\ segSum = 0
    /\ measured = 0
    /\ plain = TRUE
    /\ loneGuard = TRUE
    /\ wop \in {"start", "stop"}
    /\ wpc = "idle"
    /\ w_n = now(0)
    /\ r_order \in {"elapsed_first", "call_first"}
    /\ rpc = "idle"
    /\ r_elapsed = 0
    /\ r_ticking = FALSE
    /\ r_n = now(0)
    /\ r_since = 0
    /\ before = This
    /\ q_seen = {}
    /\ pre_ok = FALSE

\* What a step of either thread leaves alone.
Rest == UNCHANGED <<build, startnow, guards, lastCall, calls, hist, wop,
                    r_order, before>>

WriterIdle == UNCHANGED <<wpc, w_n>>

ReaderIdle == UNCHANGED <<rpc, r_elapsed, r_ticking, r_n, r_since, ret,
                          q_seen, pre_ok>>

\* The reader is inside operator().
Running == rpc \notin {"idle", "done"}

\* `if (! m_ticking)` of start(), `if (m_ticking)` of stop().
W_Test ==
    /\ wpc = "idle"
    /\ wpc' = IF m_ticking = (wop = "stop") THEN "now" ELSE "done"
    /\ UNCHANGED <<clock, fields, w_n>>
    /\ ReaderIdle /\ Rest

\* The writer's call of now().
W_Now ==
    /\ wpc = "now"
    /\ w_n' = now(clock)
    /\ wpc' = "store1"
    /\ UNCHANGED <<clock, fields>>
    /\ ReaderIdle /\ Rest

\* One store of the writer.
Store(f) ==
    /\ m_starttime' = IF f = "m_starttime" THEN w_n ELSE m_starttime
    /\ m_elapsed' = IF f = "m_elapsed"
                    THEN m_elapsed + diff(w_n, m_starttime)
                    ELSE m_elapsed
    /\ m_ticking' = IF f = "m_ticking" THEN wop = "start" ELSE m_ticking

W_Store1 ==
    /\ wpc = "store1"
    /\ Store((IF wop = "start" THEN start_writes ELSE stop_writes)[1])
    /\ wpc' = "store2"
    /\ UNCHANGED <<clock, w_n>>
    /\ ReaderIdle /\ Rest

W_Store2 ==
    /\ wpc = "store2"
    /\ Store((IF wop = "start" THEN start_writes ELSE stop_writes)[2])
    /\ wpc' = "done"
    /\ UNCHANGED <<clock, w_n>>
    /\ ReaderIdle /\ Rest

\* Where the reader goes once time_since_start() has returned.
AfterCall == IF r_order = "elapsed_first" THEN "return" ELSE "elapsed"

\* The reader enters operator().
R_Begin ==
    /\ rpc = "idle"
    /\ rpc' = IF r_order = "elapsed_first" THEN "elapsed" ELSE "ticking"
    /\ q_seen' = {clock}
    /\ pre_ok' = (wpc # "done")
    /\ UNCHANGED <<clock, fields, r_elapsed, r_ticking, r_n, r_since, ret>>
    /\ WriterIdle /\ Rest

\* The load of m_elapsed in `m_elapsed + time_since_start()`.
R_LoadElapsed ==
    /\ rpc = "elapsed"
    /\ r_elapsed' = m_elapsed
    /\ rpc' = IF r_order = "elapsed_first" THEN "ticking" ELSE "return"
    /\ UNCHANGED <<clock, fields, r_ticking, r_n, r_since, ret, q_seen,
                   pre_ok>>
    /\ WriterIdle /\ Rest

\* `if (! m_ticking) return 0;` of time_since_start().
R_LoadTicking ==
    /\ rpc = "ticking"
    /\ r_ticking' = m_ticking
    /\ r_since' = 0
    /\ rpc' = IF m_ticking THEN "now" ELSE AfterCall
    /\ UNCHANGED <<clock, fields, r_elapsed, r_n, ret, q_seen, pre_ok>>
    /\ WriterIdle /\ Rest

\* `value_t n = now();` of time_since_start().
R_Now ==
    /\ rpc = "now"
    /\ r_n' = now(clock)
    /\ rpc' = "start"
    /\ UNCHANGED <<clock, fields, r_elapsed, r_ticking, r_since, ret, q_seen,
                   pre_ok>>
    /\ WriterIdle /\ Rest

\* `return diff (m_starttime, n);` of time_since_start().
R_LoadStart ==
    /\ rpc = "start"
    /\ r_since' = diff(m_starttime, r_n)
    /\ rpc' = AfterCall
    /\ UNCHANGED <<clock, fields, r_elapsed, r_ticking, r_n, ret, q_seen,
                   pre_ok>>
    /\ WriterIdle /\ Rest

\* operator() returns the sum.
R_Return ==
    /\ rpc = "return"
    /\ ret' = r_elapsed + r_since
    /\ rpc' = "done"
    /\ UNCHANGED <<clock, fields, r_elapsed, r_ticking, r_n, r_since, q_seen,
                   pre_ok>>
    /\ WriterIdle /\ Rest

\* The clock moves forward between any two steps.
Tick ==
    /\ \E c \in ClockReadings :
          /\ c > clock
          /\ clock' = c
          /\ q_seen' = IF Running THEN q_seen \cup {c} ELSE q_seen
    /\ UNCHANGED <<fields, rpc, r_elapsed, r_ticking, r_n, r_since, ret,
                   pre_ok>>
    /\ WriterIdle /\ Rest

WriterStep == W_Test \/ W_Now \/ W_Store1 \/ W_Store2

ReaderStep ==
    \/ R_Begin
    \/ R_LoadElapsed
    \/ R_LoadTicking
    \/ R_Now
    \/ R_LoadStart
    \/ R_Return

NextConc ==
    \/ W_Test
    \/ W_Now
    \/ W_Store1
    \/ W_Store2
    \/ R_Begin
    \/ R_LoadElapsed
    \/ R_LoadTicking
    \/ R_Now
    \/ R_LoadStart
    \/ R_Return
    \/ Tick

SpecConc == InitConc /\ [][NextConc]_vars

\* The Timer the writer's call leaves when it runs alone on `before`.
Post == IF wop = "stop" THEN stop(before, w_n) ELSE start(before, w_n)

\* The writer has read its clock, or found nothing to do.
PostOk == wpc \in {"store1", "store2", "done"}

\* The totals the Timer reports sequentially at the clock readings there
\* were during the query: before the writer's call, unless that call was
\* over when the query began, and after it, once the writer has read its
\* clock.
Sequential ==
    (IF pre_ok
     THEN {operator_call(before, now(c)).ret : c \in q_seen} ELSE {})
    \cup
    (IF PostOk
     THEN {operator_call(Post, now(c)).ret : c \in q_seen} ELSE {})

\* The two torn totals of a query that overlaps a stop(): the accumulated
\* time from before the stop with nothing for the open segment, and the
\* accumulated time from after the stop with the open segment added again.
Torn ==
    IF wop = "stop" /\ pre_ok /\ PostOk /\ before.m_ticking
    THEN {before.m_elapsed,
          Post.m_elapsed + time_since_start(before, r_n).ret}
    ELSE {}

\* C15: an operator() query that runs concurrently with one stop() or
\* start() of another thread, every load, store and clock read atomic and
\* the clock non-decreasing, returns a total the Timer reports sequentially
\* at some clock reading taken during the query (the open segment neither
\* counted twice nor omitted), and the query changes no state.
C15_QueryIsSequential ==
    /\ [][ReaderStep => UNCHANGED fields]_vars
    /\ [][R_Return => ret' \in Sequential]_vars

\* C15 as the code has it: the query stores to no member and the writer's
\* call ends in the state it reaches alone; beside a start() the query
\* returns a sequential total; beside a stop() it returns a sequential
\* total or one of the two torn ones.
C15_QueryTornOnlyByStop ==
    /\ [][ReaderStep => UNCHANGED fields]_vars
    /\ [][R_Return => ret' \in Sequential \cup Torn]_vars
    /\ [](wpc = "done" => This = Post)

\* The query saw the start() of the other thread half-way: it found the
\* Timer ticking after the writer's clock read and before the writer was
\* done, and returned a total that includes the new segment.
C15_ReadBesideStart ==
    /\ rpc = "done"
    /\ wop = "start"
    /\ pre_ok
    /\ ~before.m_ticking
    /\ r_ticking
    /\ ret # before.m_elapsed

\* The query overlapped a stop() and returned a torn total.
C15_ReadBesideStop ==
    /\ rpc = "done"
    /\ wop = "stop"
    /\ pre_ok
    /\ ret \in Torn
    /\ ret \notin Sequential

====
